---- MODULE Spec2Model ----
(***************************************************************************)
(* Model of django_cotton/templatetags/_component.py: the cotton_component *)
(* tag function and CottonComponentNode.render with its helpers.           *)
(*                                                                         *)
(* Strings are sequences of symbols.  A symbol is one character, except    *)
(* that the template delimiters "{{", "}}", "{%", "%}" are one symbol      *)
(* each.  A Python value is a record [k |-> kind, v |-> repr] where repr   *)
(* is the string str(value) gives; kinds are "str", "int", "bool", "obj",  *)
(* "list", "dict", "ref" and "exc".  A Python dict is a sequence of        *)
(* <<key, value>> pairs in insertion order.                                *)
(***************************************************************************)
EXTENDS Naturals, Sequences, FiniteSets, TLC

(* ------------------------------ bounds -------------------------------- *)
MaxBits == 2
MaxRenders == 2
MaxDepth == 2
MaxBody == 2

(* ------------------------------ strings ------------------------------- *)
Str(s) == [k |-> "str", v |-> s]
PyTrue == [k |-> "bool", v |-> <<"T", "r", "u", "e">>]
PyInt(s) == [k |-> "int", v |-> s]
NoValue == [k |-> "none", v |-> <<>>]

Quotes == {"\"", "'"}
Digits == {"0", "1", "2", "3", "4", "5", "6", "7", "8", "9"}

Tail2(s, i) == SubSeq(s, i, Len(s))

StartsWith(s, c) == Len(s) > 0 /\ s[1] = c

\* str.replace(a, b) for one-symbol a and b
Replace(s, a, b) == [i \in 1..Len(s) |-> IF s[i] = a THEN b ELSE s[i]]

\* str.lstrip(c)
RECURSIVE LStrip(_, _)
LStrip(s, c) == IF StartsWith(s, c) THEN LStrip(Tail(s), c) ELSE s

\* the index of the first c in s at or after i, 0 when there is none
RECURSIVE Find(_, _, _)
Find(s, c, i) ==
  IF i > Len(s) THEN 0
  ELSE IF s[i] = c THEN i
  ELSE Find(s, c, i + 1)

\* str.split(c): the parts between every occurrence of c
RECURSIVE SplitAll(_, _)
SplitAll(s, c) ==
  LET i == Find(s, c, 1)
  IN IF i = 0 THEN <<s>>
     ELSE <<SubSeq(s, 1, i - 1)>> \o SplitAll(Tail2(s, i + 1), c)

\* sep.join(parts)
RECURSIVE Join(_, _)
Join(parts, sep) ==
  IF Len(parts) = 0 THEN <<>>
  ELSE IF Len(parts) = 1 THEN parts[1]
  ELSE parts[1] \o sep \o Join(Tail(parts), sep)

(* ------------------------------- dicts -------------------------------- *)
RECURSIVE IndexOfKey(_, _, _)
IndexOfKey(d, key, i) ==
  IF i > Len(d) THEN 0
  ELSE IF d[i][1] = key THEN i
  ELSE IndexOfKey(d, key, i + 1)

Has(d, key) == IndexOfKey(d, key, 1) # 0
Get(d, key) == d[IndexOfKey(d, key, 1)][2]
GetOr(d, key, default) == IF Has(d, key) THEN Get(d, key) ELSE default

\* d[key] = val: in place when the key is there, appended otherwise
Put(d, key, val) ==
  LET i == IndexOfKey(d, key, 1)
  IN IF i = 0 THEN Append(d, <<key, val>>)
     ELSE [d EXCEPT ![i] = <<key, val>>]

\* d.update(e)
RECURSIVE Update(_, _)
Update(d, e) ==
  IF Len(e) = 0 THEN d
  ELSE Update(Put(d, e[1][1], e[1][2]), Tail(e))

(* ------------------- the host framework's evaluators ------------------- *)
Ok(val) == [st |-> "ok", val |-> val, exc |-> ""]
Raised(exc) == [st |-> "raise", val |-> NoValue, exc |-> exc]
DoesNotExist == [st |-> "dne", val |-> NoValue, exc |-> "VariableDoesNotExist"]

IsInt(s) == Len(s) > 0 /\ \A i \in 1..Len(s) : s[i] \in Digits

IsQuoted(s) == Len(s) > 0 /\ s[1] \in Quotes /\ s[Len(s)] = s[1]

Inner(s) == SubSeq(s, 2, Len(s) - 1)

HasDotUnderscore(s) == \E i \in 1..Len(s) - 1 : s[i] = "." /\ s[i + 1] = "_"

\* template.Variable(value).resolve(context).  The constructor takes a number
\* or a quoted string as a literal, indexes var[0] (IndexError on ""), and
\* rejects a leading underscore; resolve looks the dotted path up in the
\* context and raises VariableDoesNotExist when a segment is missing.  The
\* values of this model have no attributes, so a second segment is missing.
VariableResolve(value, ctx) ==
  IF IsInt(value) THEN Ok(PyInt(value))
  ELSE IF IsQuoted(value) THEN Ok(Str(Inner(value)))
  ELSE IF Len(value) = 0 THEN Raised("IndexError")
  ELSE IF HasDotUnderscore(value) \/ value[1] = "_" THEN Raised("TemplateSyntaxError")
  ELSE LET lookups == SplitAll(value, ".")
       IN IF Len(lookups) = 1 /\ Has(ctx, lookups[1])
          THEN Ok(Get(ctx, lookups[1]))
          ELSE DoesNotExist

\* Template(value).render(Context(context)): the lexer cuts the text at each
\* closed {{ }} and {% %}; an unclosed delimiter is text.  A variable tag
\* renders str() of its value, or "" when the variable does not exist; an
\* empty or malformed variable tag and a block tag that names no registered
\* tag raise TemplateSyntaxError when the template is compiled.
RECURSIVE TemplateRender(_, _)
TemplateRender(s, ctx) ==
  IF Len(s) = 0 THEN Ok(Str(<<>>))
  ELSE LET close == IF s[1] = "{{" THEN Find(s, "}}", 2)
                    ELSE IF s[1] = "{%" THEN Find(s, "%}", 2)
                    ELSE 0
       IN IF close = 0
          THEN LET rest == TemplateRender(Tail(s), ctx)
               IN IF rest.st = "ok" THEN Ok(Str(<<s[1]>> \o rest.val.v)) ELSE rest
          ELSE IF s[1] = "{%" THEN Raised("TemplateSyntaxError")
          ELSE LET name == SubSeq(s, 2, close - 1)
                   var == IF Len(name) = 0 THEN Raised("TemplateSyntaxError")
                          ELSE VariableResolve(name, ctx)
                   rest == TemplateRender(Tail2(s, close + 1), ctx)
               IN IF var.st = "raise" THEN Raised("TemplateSyntaxError")
                  ELSE IF rest.st # "ok" THEN rest
                  ELSE IF var.st = "dne" THEN rest
                  ELSE Ok(Str(var.val.v \o rest.val.v))

\* ast.literal_eval(value): a number and a quoted string are literals, any
\* other text of this alphabet raises ValueError or SyntaxError
LiteralEval(s) ==
  IF IsInt(s) /\ (Len(s) = 1 \/ s[1] # "0") THEN Ok(PyInt(s))
  ELSE IF Len(s) >= 2 /\ IsQuoted(s) /\ Find(Inner(s), s[1], 1) = 0 THEN Ok(Str(Inner(s)))
  ELSE Raised("ValueError")

(* ------------------------ CottonComponentNode -------------------------- *)
\* _parse_template_string: catches ValueError and SyntaxError only
_parse_template_string(value, ctx) ==
  LET r == TemplateRender(value, ctx)
  IN IF r.st = "raise" /\ r.exc \in {"ValueError", "SyntaxError"}
     THEN Ok(Str(value))
     ELSE r

\* _process_dynamic_attribute
_process_dynamic_attribute(value, ctx) ==
  LET var == VariableResolve(value, ctx)
  IN IF var.st # "dne" THEN var
     ELSE IF Len(value) = 0 THEN Ok(PyTrue)
     ELSE LET t == _parse_template_string(value, ctx)
          IN IF t.st = "raise" THEN t
             ELSE LET lit == LiteralEval(t.val.v)
                  IN IF lit.st = "ok" THEN lit ELSE Ok(t.val)

\* the quote stripping of _build_attrs
StripQuotes(value) ==
  IF Len(value) > 0 /\ value[1] = value[Len(value)] /\ value[1] \in Quotes
  THEN Inner(value)
  ELSE value

\* _build_attrs: [st, attrs, exc], the attrs built or the exception raised
RECURSIVE BuildFrom(_, _, _)
BuildFrom(kwargs, ctx, attrs) ==
  IF Len(kwargs) = 0 THEN [st |-> "ok", attrs |-> attrs, exc |-> ""]
  ELSE LET key == kwargs[1][1]
           value == StripQuotes(kwargs[1][2])
       IN IF StartsWith(key, ":")
          THEN LET r == _process_dynamic_attribute(value, ctx)
               IN IF r.st = "raise"
                  THEN [st |-> "raise", attrs |-> attrs, exc |-> r.exc]
                  ELSE BuildFrom(Tail(kwargs), ctx, Put(attrs, Tail(key), r.val))
          ELSE IF Len(value) = 0
          THEN BuildFrom(Tail(kwargs), ctx, Put(attrs, key, PyTrue))
          ELSE BuildFrom(Tail(kwargs), ctx, Put(attrs, key, Str(value)))

_build_attrs(kwargs, ctx) == BuildFrom(kwargs, ctx, <<>>)

(* --------------------------- cotton_component -------------------------- *)
\* one token: key, value = bit.split("="), or the whole token and "" when
\* the unpacking raises ValueError (the split gave one part, or three)
SplitBit(bit) ==
  LET parts == SplitAll(bit, "=")
  IN IF Len(parts) = 2 THEN <<parts[1], parts[2]>> ELSE <<bit, <<>>>>

RECURSIVE ParseBits(_, _)
ParseBits(bits, kwargs) ==
  IF Len(bits) = 0 THEN kwargs
  ELSE LET kv == SplitBit(bits[1])
       IN ParseBits(Tail(bits), Put(kwargs, kv[1], kv[2]))

(* ------------------------------ constants ------------------------------ *)
K_slot == <<"s", "l", "o", "t">>
K_attrs == <<"a", "t", "t", "r", "s">>
K_attrs_dict == <<"a", "t", "t", "r", "s", "_", "d", "i", "c", "t">>
K_is == <<"i", "s">>
K_store == <<"c", "o", "t", "t", "o", "n", "_", "n", "a", "m", "e", "d", "_",
             "s", "l", "o", "t", "s">>
K_expr_attrs == <<"c", "t", "n", "_", "t", "e", "m", "p", "l", "a", "t", "e", "_",
                  "e", "x", "p", "r", "e", "s", "s", "i", "o", "n", "_",
                  "a", "t", "t", "r", "s">>
K_cotton_dir == <<"C", "O", "T", "T", "O", "N", "_", "D", "I", "R">>
SentinelPath == <<"c", "o", "m", "p", "o", "n", "e", "n", "t">>
DefaultDir == <<"c", "o", "t", "t", "o", "n">>
HtmlExt == <<".", "h", "t", "m", "l">>
IncompleteDynamicComponent ==
  [k |-> "exc", v |-> <<"CottonIncompleteDynamicComponentException">>]

(* ----------------------- render, step by step -------------------------- *)
\* ensure_quoted of django_cotton.utils
ensure_quoted(val) ==
  IF val.k = "str" /\ Len(val.v) > 0 /\ val.v[1] = "\"" /\ val.v[Len(val.v)] = "\""
  THEN val.v
  ELSE <<"\"">> \o val.v \o <<"\"">>

\* " ".join(f"{key}={ensure_quoted(value)}" for key, value in attrs.items())
AttrsString(attrs) ==
  Join([i \in 1..Len(attrs) |-> attrs[i][1] \o <<"=">> \o ensure_quoted(attrs[i][2])],
       <<" ">>)

\* the value standing in a context for a dict: its items, kinds included
DictValue(d) ==
  [k |-> "dict",
   v |-> Join([i \in 1..Len(d) |-> d[i][1] \o <<"=", d[i][2].k, ":">> \o d[i][2].v],
              <<";">>)]

\* {key.replace("-", "_"): value for key, value in attrs.items()}
Normalize(attrs) ==
  Update(<<>>, [i \in 1..Len(attrs) |-> <<Replace(attrs[i][1], "-", "_"), attrs[i][2]>>])

\* the names listed under the marker key
ExpressionAttrs(named) ==
  IF Has(named, K_expr_attrs) /\ Len(Get(named, K_expr_attrs).v) > 0
  THEN SplitAll(Get(named, K_expr_attrs).v, ",")
  ELSE <<>>

RECURSIVE DeferredOneColon(_, _, _, _)
DeferredOneColon(names, named, ctx, attrs) ==
  IF Len(names) = 0 THEN [st |-> "ok", attrs |-> attrs, exc |-> ""]
  ELSE IF ~Has(named, names[1]) THEN [st |-> "raise", attrs |-> attrs, exc |-> "KeyError"]
  ELSE LET r == _process_dynamic_attribute(Get(named, names[1]).v, ctx)
       IN IF r.st = "raise"
          THEN [st |-> "raise", attrs |-> attrs, exc |-> r.exc]
          ELSE DeferredOneColon(Tail(names), named, ctx,
                                Put(attrs, Tail(names[1]), r.val))

\* the loop moving the deferred expression attributes over to attrs
RECURSIVE DeferredFrom(_, _, _, _)
DeferredFrom(names, named, ctx, attrs) ==
  IF Len(names) = 0 THEN [st |-> "ok", attrs |-> attrs, exc |-> ""]
  ELSE IF ~Has(named, names[1]) THEN [st |-> "raise", attrs |-> attrs, exc |-> "KeyError"]
  ELSE LET r == _process_dynamic_attribute(Get(named, names[1]).v, ctx)
       IN IF r.st = "raise"
          THEN [st |-> "raise", attrs |-> attrs, exc |-> r.exc]
          ELSE DeferredFrom(Tail(names), named, ctx,
                            Put(attrs, LStrip(names[1], ":"), r.val))

\* _generate_component_template_path
BaseDir(conf) == IF Has(conf, K_cotton_dir) THEN Get(conf, K_cotton_dir).v ELSE DefaultDir

TemplatePathDotsOnly(component_path, conf) ==
  BaseDir(conf) \o <<"/">> \o Replace(component_path, ".", "/") \o HtmlExt

TemplatePathOf(component_path, conf) ==
  BaseDir(conf) \o <<"/">> \o Replace(Replace(component_path, ".", "/"), "-", "_") \o HtmlExt

GeneratePathRaising(component_path, attrs, conf) ==
  IF component_path = SentinelPath
  THEN IF Has(attrs, K_is)
       THEN IF Get(attrs, K_is).k = "str"
            THEN Ok(Str(TemplatePathOf(Get(attrs, K_is).v, conf)))
            ELSE Raised("AttributeError")
       ELSE Raised("CottonIncompleteDynamicComponentException")
  ELSE Ok(Str(TemplatePathOf(component_path, conf)))

_generate_component_template_path(component_path, attrs, conf) ==
  IF component_path = SentinelPath
  THEN IF Has(attrs, K_is)
       THEN IF Get(attrs, K_is).k = "str"
            THEN Ok(Str(TemplatePathOf(Get(attrs, K_is).v, conf)))
            ELSE Raised("AttributeError")
       ELSE Ok(IncompleteDynamicComponent)
  ELSE Ok(Str(TemplatePathOf(component_path, conf)))

(* -------------------------------- state -------------------------------- *)
VARIABLES
  context,   \* the render context: name -> value
  settings,  \* django.conf.settings: name -> value
  hasStore,  \* whether "cotton_named_slots" is in the context
  store,     \* context["cotton_named_slots"]: component key -> slot name -> value
  stack,     \* the render calls in progress, the innermost last; a call's
             \* captured field records what its own body's slots wrote
  nrender,   \* render calls started so far
  raised,    \* the exception that ended the render pass, "" when none
  handed     \* what the last call handed to get_template(...).render

vars == <<context, settings, hasStore, store, stack, nrender, raised, handed>>

Top == stack[Len(stack)]

SetTop(f) == [stack EXCEPT ![Len(stack)] = f]

Digit(i) == <<"0", "1", "2", "3", "4", "5", "6", "7", "8", "9">>[i + 1]

\* what a context lookup sees: the context, and the store once it is there
ContextView ==
  IF hasStore THEN Put(context, K_store, [k |-> "ref", v |-> K_store]) ELSE context

\* context.get("cotton_named_slots", {}).get(key, {})
LocalNamedSlots(key) == IF hasStore THEN GetOr(store, key, <<>>) ELSE <<>>

NoHandoff == [key |-> <<>>, nslots |-> 0]

(* ------------------------------- inputs -------------------------------- *)
\* tag tokens after the path and the key, as token.split_contents() gives them
AttrTokens ==
  { <<"b">>,                                            \* b
    <<":", "a", "=", "y">>,                             \* :a=y
    <<":", "b">>,                                       \* :b
    <<":", "n", "=", "\"", "4", "2", "\"">>,            \* :n="42"
    <<":", "t", "=", "\"", "p", "-", "{{", "y", "}}", "\"">>,   \* :t="p-{{y}}"
    <<":", "m", "=", "{{", "n", "}}">>,                 \* :m={{n}}
    <<":", "u", "=", "\"", "'", "{{", "y", "}}", "'", "\"">>,   \* :u="'{{y}}'"
    <<":", "q", "=", "{{", "}}">>,                      \* :q={{}}
    <<":", ":", "c", "=", "1">>,                        \* ::c=1
    <<"h", "=", "a", "=", "b">>,                        \* h=a=b
    <<"x", "-", "y", "=", "v">>,                        \* x-y=v
    <<"x", "_", "y", "=", "w">>,                        \* x_y=w
    <<"s", "l", "o", "t", "=", "z">>,                   \* slot=z
    <<"i", "s", "=", "w", ".", "b", "-", "c">>,         \* is=w.b-c
    <<":", "i", "s", "=", "4", "2">> }                  \* :is=42

SlotTokens ==
  { <<"x", "=", "1">>,                                  \* x=1
    <<"i", "s", "=", "w", ".", "b", "-", "c">> }        \* is=w.b-c

MyThing == <<"m", "y", "-", "t", "h", "i", "n", "g">>

ComponentPaths == { SentinelPath, MyThing }

ComponentKeys == { <<"k", "1">>, <<"k", "2">> }

\* slot names a cotton_slot node in the body may carry
SlotNames == { <<"t">>, K_slot }

\* deferred expression attributes: <<name, raw expression>>
DeferredAttrs == { <<(<<":", "x">>), <<"y">>>>,
                   <<(<<":", ":", "i", "s">>), <<"w", ".", "b">>>> }

BitLists(tokens) == UNION { [1..n -> tokens] : n \in 0..MaxBits }

(* ------------------------------- actions ------------------------------- *)
Running == raised = ""

\* cotton_component(parser, token) builds the node; its render call starts,
\* at the top level or from the body of the call in progress
RenderTag(component_path, component_key, bits) ==
  /\ Running
  /\ nrender < MaxRenders
  /\ \/ stack = <<>>
     \/ /\ stack # <<>>
        /\ Len(stack) < MaxDepth
        /\ Top.pc = "body"
  /\ nrender' = nrender + 1
  /\ stack' = Append(stack,
       [id |-> nrender + 1,
        component_path |-> component_path,
        component_key |-> component_key,
        bits |-> bits,
        kwargs |-> ParseBits(bits, <<>>),
        pc |-> "build",
        nbody |-> 0,
        attrs |-> <<>>,
        attrs_dict |-> <<>>,
        attrs_string |-> <<>>,
        named |-> <<>>,
        captured |-> <<>>,
        local_ctx |-> <<>>,
        template_path |-> NoValue])
  /\ UNCHANGED <<context, settings, hasStore, store, raised, handed>>

\* render, line 51 and line 54: attrs = self._build_attrs(context), then
\* local_ctx = context.flatten()
BuildAttrs ==
  /\ Running /\ stack # <<>> /\ Top.pc = "build"
  /\ LET r == _build_attrs(Top.kwargs, ContextView)
     IN IF r.st = "raise"
        THEN /\ raised' = r.exc
             /\ UNCHANGED stack
        ELSE /\ stack' = SetTop([Top EXCEPT !.pc = "body", !.attrs = r.attrs,
                                            !.local_ctx = ContextView])
             /\ UNCHANGED raised
  /\ UNCHANGED <<context, settings, hasStore, store, nrender, handed>>

\* a cotton_slot node of the body renders: it stores its content under the
\* component's key, and lists its name under the marker key when it carries
\* a deferred expression attribute
SlotWrite(name, content, deferred) ==
  /\ Running /\ stack # <<>> /\ Top.pc = "body"
  /\ Top.nbody < MaxBody
  /\ LET old == LocalNamedSlots(Top.component_key)
         listed == IF deferred
                   THEN Put(old, K_expr_attrs,
                            [k |-> "list",
                             v |-> Join(Append(ExpressionAttrs(old), name), <<",">>)])
                   ELSE old
     IN store' = Put(store, Top.component_key, Put(listed, name, Str(content)))
  /\ hasStore' = TRUE
  /\ stack' = SetTop([Top EXCEPT !.nbody = @ + 1,
                                  !.captured = Put(@, name, Str(content))])
  /\ UNCHANGED <<context, settings, nrender, raised, handed>>

\* render, lines 55 to 60: the body is rendered, the named slots of this key
\* are merged over the default slot
MergeSlots ==
  /\ Running /\ stack # <<>> /\ Top.pc = "body"
  /\ LET named == LocalNamedSlots(Top.component_key)
         body == Str(<<"b", Digit(Top.id)>>)
     IN stack' = SetTop([Top EXCEPT !.pc = "deferred", !.named = named,
                           !.local_ctx = Update(Put(@, K_slot, body), named)])
  /\ UNCHANGED <<context, settings, hasStore, store, nrender, raised, handed>>

\* render, lines 63 to 70
ProcessDeferred ==
  /\ Running /\ stack # <<>> /\ Top.pc = "deferred"
  /\ LET r == DeferredFrom(ExpressionAttrs(Top.named), Top.named, Top.local_ctx, Top.attrs)
     IN IF r.st = "raise"
        THEN /\ raised' = r.exc
             /\ UNCHANGED stack
        ELSE /\ stack' = SetTop([Top EXCEPT !.pc = "expose", !.attrs = r.attrs])
             /\ UNCHANGED raised
  /\ UNCHANGED <<context, settings, hasStore, store, nrender, handed>>

\* render, lines 72 to 78
Expose ==
  /\ Running /\ stack # <<>> /\ Top.pc = "expose"
  /\ LET attrs_string == AttrsString(Top.attrs)
         ctx1 == Put(Top.local_ctx, K_attrs, Str(attrs_string))
         ctx2 == Put(ctx1, K_attrs_dict, DictValue(Top.attrs))
         attrs == Normalize(Top.attrs)
     IN stack' = SetTop([Top EXCEPT !.pc = "reset",
                           !.attrs_string = attrs_string,
                           !.attrs_dict = Top.attrs,
                           !.attrs = attrs,
                           !.local_ctx = Update(ctx2, attrs)])
  /\ UNCHANGED <<context, settings, hasStore, store, nrender, raised, handed>>

\* render, line 81: all_named_slots_ctx[self.component_key] = {}
KeepSlots(slots, key) == slots

ClearedSlots(slots, key) == Put(slots, key, <<>>)

ResetSlots ==
  /\ Running /\ stack # <<>> /\ Top.pc = "reset"
  /\ store' = IF hasStore THEN ClearedSlots(store, Top.component_key) ELSE store
  /\ stack' = SetTop([Top EXCEPT !.pc = "path"])
  /\ UNCHANGED <<context, settings, hasStore, nrender, raised, handed>>

\* render, line 83
ResolvePath ==
  /\ Running /\ stack # <<>> /\ Top.pc = "path"
  /\ LET r == _generate_component_template_path(Top.component_path, Top.attrs, settings)
     IN IF r.st = "raise"
        THEN /\ raised' = r.exc
             /\ UNCHANGED stack
        ELSE /\ stack' = SetTop([Top EXCEPT !.pc = "load", !.template_path = r.val])
             /\ UNCHANGED raised
  /\ UNCHANGED <<context, settings, hasStore, store, nrender, handed>>

\* render, line 85: get_template(template_path).render(local_ctx); the
\* lookup of what is no path fails, with the loader's own exception, the
\* call returns otherwise
LoadTemplate ==
  /\ Running /\ stack # <<>> /\ Top.pc = "load"
  /\ handed' = [key |-> Top.component_key, nslots |-> Len(Top.named)]
  /\ IF Top.template_path.k # "str"
     THEN /\ raised' \in {"TemplateDoesNotExist", "TypeError"}
          /\ UNCHANGED stack
     ELSE /\ UNCHANGED raised
          /\ stack' = SubSeq(stack, 1, Len(stack) - 1)
  /\ UNCHANGED <<context, settings, hasStore, store, nrender>>

Init ==
  /\ context = << <<(<<"y">>), Str(<<"v">>)>>, <<(<<"n">>), Str(<<"7">>)>> >>
  /\ settings = <<>>
  /\ hasStore = FALSE
  /\ store = <<>>
  /\ stack = <<>>
  /\ nrender = 0
  /\ raised = ""
  /\ handed = NoHandoff

\* the same, with COTTON_DIR set or not
InitAttrs ==
  /\ context = << <<(<<"y">>), Str(<<"v">>)>>, <<(<<"n">>), Str(<<"7">>)>> >>
  /\ settings \in { <<>>, << <<K_cotton_dir, Str(<<"u", "i">>)>> >> }
  /\ hasStore = FALSE
  /\ store = <<>>
  /\ stack = <<>>
  /\ nrender = 0
  /\ raised = ""
  /\ handed = NoHandoff

\* the render pass of a template whose components follow one another and
\* carry slots
Next ==
  \/ \E p \in ComponentPaths, key \in ComponentKeys, bits \in BitLists(SlotTokens) :
       stack = <<>> /\ RenderTag(p, key, bits)
  \/ BuildAttrs
  \/ \E name \in SlotNames : SlotWrite(name, <<"s", Digit(Top.id)>>, FALSE)
  \/ \E d \in DeferredAttrs : SlotWrite(d[1], d[2], TRUE)
  \/ MergeSlots
  \/ ProcessDeferred
  \/ Expose
  \/ ResetSlots
  \/ ResolvePath
  \/ LoadTemplate

Spec == Init /\ [][Next]_vars

\* the same pass, with components in the bodies of components
NextNested ==
  \/ Next
  \/ \E key \in ComponentKeys : stack # <<>> /\ RenderTag(MyThing, key, <<>>)

SpecNested == Init /\ [][NextNested]_vars

\* the render pass of a template with one component, which carries any kind
\* of attribute token and no slot
NextAttrs ==
  \/ \E p \in ComponentPaths, bits \in BitLists(AttrTokens) :
       nrender = 0 /\ RenderTag(p, <<"k", "1">>, bits)
  \/ BuildAttrs
  \/ MergeSlots
  \/ ProcessDeferred
  \/ Expose
  \/ ResetSlots
  \/ ResolvePath
  \/ LoadTemplate

SpecAttrs == InitAttrs /\ [][NextAttrs]_vars

(* ------------------------------- claims -------------------------------- *)
Active == stack # <<>>

\* the ids of the render calls that have returned
Finished == { i \in 1..nrender : \A j \in 1..Len(stack) : stack[j].id # i }

\* C1: the local context a render call hands to its sub-template holds no
\* slot content written during a call that had returned before, and once a
\* call has reset the store, the store's entry for its key is empty.
C1_NoStaleSlots ==
  Active =>
    /\ \A f \in 1..Len(stack) : \A n \in 1..Len(stack[f].local_ctx) : \A i \in Finished :
         i < stack[f].id => stack[f].local_ctx[n][2] # Str(<<"s", Digit(i)>>)
    /\ (Top.pc \in {"path", "load"} /\ hasStore) =>
         (Has(store, Top.component_key) /\ Get(store, Top.component_key) = <<>>)

\* C1 witness: a second call of a key hands over its context after a first
\* call of the same key consumed named slots and reset the store.
C1_SecondRenderOfKey ==
  /\ Active /\ Len(stack) = 1 /\ Top.pc = "load" /\ Top.id = 2
  /\ handed.key = Top.component_key /\ handed.nslots > 0
  /\ hasStore /\ Get(store, Top.component_key) = <<>>

\* the cascade as C2 words it: a variable of the context wins, an empty
\* value is true, anything else is interpolated and then parsed as a literal
ClaimedCascade(v, ctx) ==
  IF Has(ctx, v) THEN Get(ctx, v)
  ELSE IF Len(v) = 0 THEN PyTrue
  ELSE LET t == TemplateRender(v, ctx)
           text == IF t.st = "ok" THEN t.val.v ELSE v
           lit == LiteralEval(text)
       IN IF lit.st = "ok" THEN lit.val ELSE Str(text)

RECURSIVE ClaimedAttrs(_, _, _)
ClaimedAttrs(kwargs, ctx, attrs) ==
  IF Len(kwargs) = 0 THEN attrs
  ELSE LET key == kwargs[1][1]
           value == StripQuotes(kwargs[1][2])
       IN IF StartsWith(key, ":")
          THEN ClaimedAttrs(Tail(kwargs), ctx, Put(attrs, Tail(key), ClaimedCascade(value, ctx)))
          ELSE ClaimedAttrs(Tail(kwargs), ctx,
                            Put(attrs, key, IF Len(value) = 0 THEN PyTrue ELSE Str(value)))

\* C2: every dynamic attribute gets the value of the fixed fallback order:
\* the context's value when the raw value names a context variable, true
\* when it is empty, else the literal parsed from the interpolated text, or
\* that text.
C2_FallbackOrder ==
  Active =>
    /\ Top.pc = "build" => raised = ""
    /\ Top.pc = "body" => Top.attrs = ClaimedAttrs(Top.kwargs, context, <<>>)

\* C3: the path handed to the template loader is the base directory, "/",
\* the component identifier with "." turned into "/" and "-" into "_", and
\* ".html".
C3_TemplatePath ==
  (Active /\ Top.pc = "load"
     /\ (Top.component_path # SentinelPath \/ Has(Top.attrs_dict, K_is))) =>
    LET ident == IF Top.component_path = SentinelPath
                 THEN Get(Top.attrs_dict, K_is).v
                 ELSE Top.component_path
        base == IF settings = <<>> THEN <<"c", "o", "t", "t", "o", "n">> ELSE <<"u", "i">>
        path == Top.template_path.v
        n == Len(base) + 1
    IN /\ Top.template_path.k = "str"
       /\ Len(path) = n + Len(ident) + 5
       /\ SubSeq(path, 1, n) = base \o <<"/">>
       /\ \A i \in 1..Len(ident) :
            path[n + i] = IF ident[i] = "." THEN "/"
                          ELSE IF ident[i] = "-" THEN "_"
                          ELSE ident[i]
       /\ SubSeq(path, n + Len(ident) + 1, Len(path)) = <<".", "h", "t", "m", "l">>
       /\ (Top.component_path = MyThing /\ settings = <<>>) =>
            path = <<"c", "o", "t", "t", "o", "n", "/", "m", "y", "_", "t", "h", "i", "n", "g",
                     ".", "h", "t", "m", "l">>
       /\ (Top.component_path = SentinelPath /\ settings = <<>>
             /\ Get(Top.attrs_dict, K_is) = Str(<<"w", ".", "b", "-", "c">>)) =>
            path = <<"c", "o", "t", "t", "o", "n", "/", "w", "/", "b", "_", "c",
                     ".", "h", "t", "m", "l">>

\* C3 witness: a dynamic component with is=w.b-c under COTTON_DIR "ui".
C3_DynamicPathHanded ==
  /\ Active /\ Top.pc = "load" /\ Top.component_path = SentinelPath
  /\ Top.template_path = Str(<<"u", "i", "/", "w", "/", "b", "_", "c", ".", "h", "t", "m", "l">>)

\* C4: evaluating a dynamic attribute never raises.
C4_NeverRaises ==
  (Active /\ Top.pc \in {"build", "deferred"}) => raised = ""

\* C5: with the sentinel path and no "is" attribute the path resolver does
\* not raise; render holds the exception value as its render target, the
\* store already reset, and only the template lookup fails.
C5_ExceptionReturned ==
  (Active /\ Top.component_path = SentinelPath /\ ~Has(Top.attrs, K_is)) =>
    /\ Top.pc = "path" => raised = ""
    /\ Top.pc = "load" =>
         /\ Top.template_path = IncompleteDynamicComponent
         /\ raised \in {"", "TemplateDoesNotExist", "TypeError"}
         /\ hasStore => Get(store, Top.component_key) = <<>>

\* C5 witness: the lookup failed on the exception value, after named slots
\* of the key were consumed and reset.
C5_LookupFailed ==
  /\ Active /\ Top.pc = "load" /\ raised # ""
  /\ Top.component_path = SentinelPath /\ Top.template_path.k = "exc"
  /\ Len(Top.named) > 0 /\ Get(store, Top.component_key) = <<>>

\* C6: no key of the final attribute mapping starts with ":", and no key
\* installed as a context variable holds a "-".
C6_NoDynamicMarkers ==
  (Active /\ Top.pc \in {"reset", "path", "load"}) =>
    /\ \A i \in 1..Len(Top.attrs_dict) : ~StartsWith(Top.attrs_dict[i][1], ":")
    /\ \A i \in 1..Len(Top.attrs) : Find(Top.attrs[i][1], "-", 1) = 0

\* a token split once: what is before its first "=", and all that follows
SplitBitOnce(bit) ==
  LET i == Find(bit, "=", 1)
  IN IF i = 0 THEN <<bit, <<>>>>
     ELSE <<SubSeq(bit, 1, i - 1), Tail2(bit, i + 1)>>

\* C7: a token is split once on "=", the key before the first "=", the value
\* all that follows; a token without "=" has the empty value, and its entry
\* in the resolved attribute mapping is true.
C7_SplitOnce ==
  Active =>
    /\ \A i \in 1..Len(Top.bits) :
         LET kv == SplitBitOnce(Top.bits[i])
         IN (\A j \in i + 1..Len(Top.bits) : SplitBitOnce(Top.bits[j])[1] # kv[1]) =>
              (Has(Top.kwargs, kv[1]) /\ Get(Top.kwargs, kv[1]) = kv[2])
    /\ (\A i \in 1..Len(Top.bits) : Find(Top.bits[i], "=", 1) = 0) =>
         /\ Top.pc = "build" => raised = ""
         /\ Top.pc = "body" =>
              \A i \in 1..Len(Top.bits) :
                LET name == IF StartsWith(Top.bits[i], ":") THEN Tail(Top.bits[i])
                            ELSE Top.bits[i]
                IN Has(Top.attrs, name) /\ Get(Top.attrs, name) = PyTrue

\* C8: the context handed to the sub-template holds the slot content under
\* "slot", the attribute string under "attrs", the attribute mapping under
\* "attrs_dict", and every attribute's value under its name with "-" turned
\* into "_", whatever the attribute names.
C8_ContextEntries ==
  (Active /\ Top.pc = "load") =>
    /\ Get(Top.local_ctx, K_slot) =
         GetOr(Top.named, K_slot, Str(<<"b", Digit(Top.id)>>))
    /\ Get(Top.local_ctx, K_attrs) = Str(AttrsString(Top.attrs_dict))
    /\ Get(Top.local_ctx, K_attrs_dict) = DictValue(Top.attrs_dict)
    /\ \A i \in 1..Len(Top.attrs_dict) :
         LET name == Replace(Top.attrs_dict[i][1], "-", "_")
         IN Has(Top.local_ctx, name) /\ Get(Top.local_ctx, name) = Top.attrs_dict[i][2]

\* C9: every named slot the component's own body wrote under its key is in
\* the context handed to its sub-template, with the content written.
C9_CapturedSlotsMerged ==
  (Active /\ Top.pc = "load") =>
    \A i \in 1..Len(Top.captured) :
      /\ Has(Top.local_ctx, Top.captured[i][1])
      /\ Get(Top.local_ctx, Top.captured[i][1]) = Top.captured[i][2]

\* the last name listed whose name without its colons is key
RECURSIVE LastListed(_, _)
LastListed(names, key) ==
  IF LStrip(names[Len(names)], ":") = key THEN names[Len(names)]
  ELSE LastListed(SubSeq(names, 1, Len(names) - 1), key)

\* the value the context holds for an attribute name: that of the last
\* attribute of the mapping with the same name once "-" is "_"
RECURSIVE LastNormalized(_, _)
LastNormalized(attrs, name) ==
  IF Replace(attrs[Len(attrs)][1], "-", "_") = name THEN attrs[Len(attrs)][2]
  ELSE LastNormalized(SubSeq(attrs, 1, Len(attrs) - 1), name)

\* the deferred attributes as installed: in attrs_dict under the name
\* without its colons, in the attrs string, and as a context variable
DeferredInstalled ==
  \A i \in 1..Len(ExpressionAttrs(Top.named)) :
    LET listed == ExpressionAttrs(Top.named)
        key == LStrip(listed[i], ":")
        raw == Get(Top.named, LastListed(listed, key)).v
        name == Replace(key, "-", "_")
    IN /\ Has(Top.attrs_dict, key)
       /\ raw = <<"y">> => Get(Top.attrs_dict, key) = Get(context, <<"y">>)
       /\ raw = <<"w", ".", "b">> => Get(Top.attrs_dict, key) = Str(raw)
       /\ \E at \in 1..Len(Top.attrs_string) :
            LET text == key \o <<"=">> \o ensure_quoted(Get(Top.attrs_dict, key))
            IN /\ SubSeq(Top.attrs_string, at, at + Len(text) - 1) = text
               /\ at = 1 \/ Top.attrs_string[at - 1] = " "
       /\ Has(Top.local_ctx, name)
       /\ Get(Top.local_ctx, name) = LastNormalized(Top.attrs_dict, name)

====
